---- MODULE Spec2Model ----
(***************************************************************************)
(* Model of the post-interpretation pipeline of info-collector-jk:         *)
(* src/src/post_processor.py (ImageCache, the background image converter,  *)
(* PostProcessor.process_unprocessed_posts and its workers) and the        *)
(* postprocessing table of src/src/database.py.                            *)
(***************************************************************************)
EXTENDS Integers, Sequences, FiniteSets, TLC

(***************************************************************************)
(* Bounds of the model.                                                    *)
(***************************************************************************)
MaxPosts == 2
MaxSaves == 3

(* pool sizes: configuration values read by PostProcessor.__init__ *)
fast_vlm_workers == 1
fast_llm_workers == 1

(***************************************************************************)
(* Image URLs.  A URL is the record urlparse() makes of it; the path is    *)
(* name + ext.                                                             *)
(***************************************************************************)
Url(scheme, netloc, name, ext, query) ==
    [scheme |-> scheme, netloc |-> netloc, name |-> name, ext |-> ext, query |-> query]

JpgUrl    == Url("https", "h", "/a", ".jpg", "")
WebpUrl   == Url("https", "h", "/b", ".webp", "")
WebpUrlQ  == Url("https", "h", "/b", ".webp", "w=1")
DynUrl    == Url("https", "h", "/c", "", "")
NoHostUrl == Url("https", "", "/d", ".png", "")
PngUrl    == Url("http", "h", "/f", ".png", "")
RootUrl   == Url("https", "h", "/", "", "")

RawUrls == {JpgUrl, WebpUrl, WebpUrlQ, DynUrl, NoHostUrl, PngUrl, RootUrl}

normalize_image_url(url) == [url EXCEPT !.query = ""]

is_valid_image_url(url) ==
    /\ url.scheme \in {"http", "https"}
    /\ url.netloc # ""
    /\ \/ url.ext \in {".jpg", ".jpeg", ".png", ".gif", ".webp", ".bmp", ".svg"}
       \/ (url.name \o url.ext) \notin {"", "/"}

is_standard_format(url) == url.ext \in {".png", ".jpg", ".jpeg"}

(* markup: the URLs the image pattern finds in a post's text, in order *)
extract_image_urls_from_markdown(markup) ==
    SelectSeq([i \in 1..Len(markup) |-> normalize_image_url(markup[i])], is_valid_image_url)

Range(s) == {s[i] : i \in 1..Len(s)}

(***************************************************************************)
(* Posts of jk_posts.  text is summary-or-title; a post without text has   *)
(* no image markup.                                                        *)
(***************************************************************************)
Post(text, markup) == [text |-> text, markup |-> markup]

PostKinds ==
    { Post("", <<>>),
      Post("t", <<>>),
      Post("t", <<NoHostUrl, JpgUrl>>),
      Post("t", <<WebpUrl>>),
      Post("t", <<WebpUrlQ, JpgUrl>>) }

NormUrls == {normalize_image_url(u) : u \in RawUrls}

(***************************************************************************)
(* Values.                                                                 *)
(***************************************************************************)
(* Optional[str]: None is the empty tuple, a value v is <<v>> *)
None    == <<>>
Some(v) == <<v>>

(* the base64 text download_and_convert_image makes of the image at url *)
Blob(url) == Some([b64 |-> url])

(* truth value of an Optional[str] holding text *)
Truthy(v) == v # None /\ v[1] # ""

vlm_model  == "vlm-model"
fast_model == "fast-model"

VlmContent == "vlm content"
LlmContent == "llm content"

VARIABLES
    unprocessed_posts,   \* the batch get_unprocessed_posts returned
    postprocessing,      \* rows of the postprocessing table
    last_save,           \* store specification: arguments of the last save call
    saves,               \* store specification: number of save calls
    cache,               \* ImageCache._cache: a dict url -> None | Blob
    processing,          \* keys of ImageCache._processing
    bg,                  \* background future of a url: none | pending | done
    bg_result,           \* result of the background future
    conversions,         \* times download_and_convert_image ran for a url
    pc,                  \* position of process_unprocessed_posts
    todo,                \* non_standard_urls still to visit in the launch loop
    dpos,                \* delayed stage: [post, url, at, res]
    mixed_image_data,    \* delayed stage: image data built for the current post
    observed,            \* what download_and_convert_image_async returned, and how
    task,                \* worker task of each post
    success_count,
    failed_count,
    convert_call,        \* conversion specification: the call of download_and_convert_image
    convert_result,      \* conversion specification: what the call returned
    temp_files,          \* conversion specification: temporary files left on disk
    lock,                \* lock specification: the thread that holds ImageCache._lock
    threads,             \* lock specification: position of each thread
    jk_posts,            \* runs specification: created_at of each row of jk_posts
    clock,               \* runs specification: NOW(), in hours
    run,                 \* runs specification: number of the current run
    pending,             \* runs specification: posts of the batch not yet processed
    selected,            \* runs specification: <<run, post>> for every post a run selected
    vlm_request,         \* vision-call specification: what the API answers to each attempt
    attempt,             \* vision-call specification: attempts call_vlm has made
    vlm_result,          \* vision-call specification: the dict call_vlm returned
    vlm_interpretation   \* vision-call specification: what _call_vlm_for_post returned

vars == <<unprocessed_posts, convert_call, convert_result, temp_files,
          jk_posts, clock, run, pending, selected,
          vlm_request, attempt, vlm_result, vlm_interpretation, lock, threads,
          postprocessing, last_save, saves, cache, processing, bg,
          bg_result, conversions, pc, todo, dpos, mixed_image_data, observed,
          task, success_count, failed_count>>

Posts == 1..Len(unprocessed_posts)

post_text(p) == unprocessed_posts[p].text

post_image_mapping(p) == extract_image_urls_from_markdown(unprocessed_posts[p].markup)

(***************************************************************************)
(* Classification (steps one and two of process_unprocessed_posts).        *)
(***************************************************************************)
(* mutant: a post is taken for an image post whether or not it has image markup *)
IsVlmPostAlways(p) == unprocessed_posts[p].text # ""

IsVlmPost(p) == unprocessed_posts[p].markup # <<>> /\ post_image_mapping(p) # <<>>

vlm_posts == {p \in Posts : IsVlmPost(p)}

llm_posts == {p \in Posts : ~IsVlmPost(p)}

(* mutant: every post with images is held for the converter *)
has_non_standard_always(p) == TRUE

(* mutant: a post is held only when none of its images is standard *)
has_non_standard_all(p) == \A u \in Range(post_image_mapping(p)) : ~is_standard_format(u)

has_non_standard(p) == \E u \in Range(post_image_mapping(p)) : ~is_standard_format(u)

delayed_posts == {p \in vlm_posts : has_non_standard(p)}

(* mutant: the posts held for the converter are dispatched in the immediate phase too *)
immediate_posts_all == vlm_posts \cup llm_posts

immediate_posts == {p \in vlm_posts : ~has_non_standard(p)} \cup llm_posts

non_standard_urls ==
    {u \in UNION {Range(post_image_mapping(p)) : p \in vlm_posts} : ~is_standard_format(u)}

(* the delayed stage walks delayed_posts in batch order *)
NextDelayed(p) ==
    IF \E q \in delayed_posts : q > p
    THEN CHOOSE q \in delayed_posts : q > p /\ \A r \in delayed_posts : r > p => q <= r
    ELSE 0

UrlItem(url) == [type |-> "url", data |-> url, url |-> url, success |-> TRUE]

Base64Item(url, data) == [type |-> "base64", data |-> data, url |-> url, success |-> TRUE]

StandardImageData(p) ==
    LET urls == post_image_mapping(p)
        IsStd(u) == is_standard_format(u)
        std == SelectSeq(urls, IsStd)
    IN  [i \in 1..Len(std) |-> UrlItem(std[i])]

(***************************************************************************)
(* The postprocessing table: UNIQUE KEY uniq_post_id (post_id), written    *)
(* with INSERT ... ON DUPLICATE KEY UPDATE.                                *)
(***************************************************************************)
Row(post_id, text, model_name, status) ==
    [post_id |-> post_id, interpretation_text |-> text,
     model_name |-> model_name, status |-> status]

(* mutant: a plain INSERT into a table without the unique key *)
InsertOnly(table, post_id, text, model_name, status) ==
    table \cup {Row(post_id, text, model_name, status)}

save_post_interpretation(table, post_id, text, model_name, status) ==
    IF \E r \in table : r.post_id = post_id
    THEN {IF r.post_id = post_id THEN Row(post_id, text, model_name, status) ELSE r : r \in table}
    ELSE table \cup {Row(post_id, text, model_name, status)}

RecordsOf(p) == {r \in postprocessing : r.post_id = p}

(***************************************************************************)
(* ImageCache.                                                             *)
(***************************************************************************)
get_cached_image(url) == IF url \in DOMAIN cache THEN cache[url] ELSE None

is_processing(url) == url \in processing

start_processing(proc, url) == proc \cup {url}

finish_processing_cache(c, url, result) ==
    [u \in DOMAIN c \cup {url} |-> IF u = url THEN result ELSE c[u]]

(* mutant: the in-flight registration is not deleted *)
KeepRegistered(proc, url) == proc

finish_processing_registry(proc, url) == proc \ {url}

(***************************************************************************)
(* Worker tasks.                                                           *)
(***************************************************************************)
NoTask == [fn |-> "none", pool |-> "none", at |-> "none", image_data |-> <<>>,
           interpretation |-> None, vlm |-> "-", llm |-> "-", raised |-> FALSE,
           result |-> "-"]

NewTask(fn, pool, image_data) ==
    [fn |-> fn, pool |-> pool, at |-> "queued", image_data |-> image_data,
     interpretation |-> None, vlm |-> "-", llm |-> "-", raised |-> FALSE,
     result |-> "-"]

Running(pool) ==
    {p \in Posts : task[p].pool = pool /\ task[p].at \notin {"none", "queued", "done"}}

PoolSize(pool) == IF pool = "LLM" THEN fast_llm_workers ELSE fast_vlm_workers

NoPos == [post |-> 0, url |-> 0, at |-> "-", res |-> None]

Init ==
    /\ unprocessed_posts \in UNION {[1..n -> PostKinds] : n \in 0..MaxPosts}
    /\ postprocessing = {}
    /\ last_save = None
    /\ saves = 0
    /\ cache = [u \in {} |-> None]
    /\ processing = {}
    /\ bg = [u \in NormUrls |-> "none"]
    /\ bg_result = [u \in NormUrls |-> None]
    /\ conversions = [u \in NormUrls |-> 0]
    /\ pc = "fetch"
    /\ todo = {}
    /\ dpos = NoPos
    /\ mixed_image_data = <<>>
    /\ observed = {}
    /\ task = [p \in 1..Len(unprocessed_posts) |-> NoTask]
    /\ success_count = 0
    /\ failed_count = 0
    /\ convert_call = None
    /\ convert_result = None
    /\ temp_files = {}
    /\ lock = None
    /\ threads = <<>>
    /\ jk_posts = <<>>
    /\ clock = 0
    /\ run = 0
    /\ pending = {}
    /\ selected = {}
    /\ vlm_request = <<>>
    /\ attempt = 0
    /\ vlm_result = None
    /\ vlm_interpretation = None

(***************************************************************************)
(* process_unprocessed_posts: fetching, classifying, launching the         *)
(* background converter.                                                   *)
(***************************************************************************)
Fetch ==
    /\ pc = "fetch"
    /\ pc' = IF Len(unprocessed_posts) = 0 THEN "done" ELSE "classify"
    /\ UNCHANGED <<unprocessed_posts, convert_call, convert_result, temp_files,
                   jk_posts, clock, run, pending, selected,
                   vlm_request, attempt, vlm_result, vlm_interpretation, lock, threads,
                   postprocessing, last_save, saves, cache, processing,
                   bg, bg_result, conversions, todo, dpos, mixed_image_data, observed,
                   task, success_count, failed_count>>

Classify ==
    /\ pc = "classify"
    /\ todo' = non_standard_urls
    /\ pc' = IF non_standard_urls # {} THEN "start_bg" ELSE "submit_immediate"
    /\ UNCHANGED <<unprocessed_posts, convert_call, convert_result, temp_files,
                   jk_posts, clock, run, pending, selected,
                   vlm_request, attempt, vlm_result, vlm_interpretation, lock, threads,
                   postprocessing, last_save, saves, cache, processing,
                   bg, bg_result, conversions, dpos, mixed_image_data, observed,
                   task, success_count, failed_count>>

(* one iteration of the loop of start_background_image_processing *)
start_background_image_processing(url) ==
    /\ pc = "start_bg"
    /\ url \in todo
    /\ IF ~is_processing(url) /\ get_cached_image(url) = None
       THEN /\ bg' = [bg EXCEPT ![url] = "pending"]
            /\ processing' = start_processing(processing, url)
       ELSE UNCHANGED <<bg, processing>>
    /\ todo' = todo \ {url}
    /\ pc' = IF todo' = {} THEN "submit_immediate" ELSE pc
    /\ UNCHANGED <<unprocessed_posts, convert_call, convert_result, temp_files,
                   jk_posts, clock, run, pending, selected,
                   vlm_request, attempt, vlm_result, vlm_interpretation, lock, threads,
                   postprocessing, last_save, saves, cache,
                   bg_result, conversions, dpos, mixed_image_data, observed,
                   task, success_count, failed_count>>

(* the results download_and_convert_image can return for a url *)
download_and_convert_image(url) == {Blob(url), None}

(* a BgImageProcessor worker runs the submitted conversion *)
BgConvert(url, result) ==
    /\ bg[url] = "pending"
    /\ result \in download_and_convert_image(url)
    /\ bg' = [bg EXCEPT ![url] = "converted"]
    /\ bg_result' = [bg_result EXCEPT ![url] = result]
    /\ conversions' = [conversions EXCEPT ![url] = @ + 1]
    /\ UNCHANGED <<unprocessed_posts, convert_call, convert_result, temp_files,
                   jk_posts, clock, run, pending, selected,
                   vlm_request, attempt, vlm_result, vlm_interpretation, lock, threads,
                   postprocessing, last_save, saves, cache, processing,
                   pc, todo, dpos, mixed_image_data, observed,
                   task, success_count, failed_count>>

(* the done-callback of the background future *)
on_complete(url) ==
    /\ bg[url] = "converted"
    /\ cache' = finish_processing_cache(cache, url, bg_result[url])
    /\ processing' = finish_processing_registry(processing, url)
    /\ bg' = [bg EXCEPT ![url] = "done"]
    /\ UNCHANGED <<unprocessed_posts, convert_call, convert_result, temp_files,
                   jk_posts, clock, run, pending, selected,
                   vlm_request, attempt, vlm_result, vlm_interpretation, lock, threads,
                   postprocessing, last_save, saves,
                   bg_result, conversions, pc, todo, dpos, mixed_image_data, observed,
                   task, success_count, failed_count>>

(***************************************************************************)
(* Step four: the immediate phase.                                         *)
(***************************************************************************)
ImmediateTask(p) ==
    IF p \in immediate_posts /\ p \in vlm_posts
    THEN IF StandardImageData(p) # <<>>
         THEN NewTask("vlm", "VLM", StandardImageData(p))
         ELSE NoTask
    ELSE IF p \in immediate_posts /\ p \in llm_posts
         THEN NewTask("llm", "LLM", <<>>)
         ELSE NoTask

(* mutant: the immediate phase starts when the background conversions have ended *)
SubmitImmediateAfterConversions ==
    /\ pc = "submit_immediate"
    /\ \A u \in NormUrls : bg[u] \in {"none", "done"}
    /\ task' = [p \in Posts |-> ImmediateTask(p)]
    /\ pc' = "collect_immediate"
    /\ UNCHANGED <<unprocessed_posts, convert_call, convert_result, temp_files,
                   jk_posts, clock, run, pending, selected,
                   vlm_request, attempt, vlm_result, vlm_interpretation, lock, threads,
                   postprocessing, last_save, saves, cache, processing,
                   bg, bg_result, conversions, todo, dpos, mixed_image_data, observed,
                   success_count, failed_count>>

SubmitImmediate ==
    /\ pc = "submit_immediate"
    /\ task' = [p \in Posts |-> ImmediateTask(p)]
    /\ pc' = "collect_immediate"
    /\ UNCHANGED <<unprocessed_posts, convert_call, convert_result, temp_files,
                   jk_posts, clock, run, pending, selected,
                   vlm_request, attempt, vlm_result, vlm_interpretation, lock, threads,
                   postprocessing, last_save, saves, cache, processing,
                   bg, bg_result, conversions, todo, dpos, mixed_image_data, observed,
                   success_count, failed_count>>

(* mutant: the loop walks every future submitted so far, not those of its phase *)
FuturesAll(pools) == {p \in Posts : task[p].pool # "none"}

(* the futures of a phase and the counts its as_completed loop adds *)
Futures(pools) == {p \in Posts : task[p].pool \in pools}

Succeeded(pools) == {p \in Futures(pools) : task[p].result = "True"}

CountSuccess(pools) == Cardinality(Succeeded(pools))

(* mutant: a worker that met an exception is not counted *)
CountFailedNoException(pools) ==
    Cardinality({p \in Futures(pools) \ Succeeded(pools) : ~task[p].raised})

CountFailed(pools) == Cardinality(Futures(pools) \ Succeeded(pools))

FirstDelayed == NextDelayed(0)

(* mutant: the delayed stage starts without the immediate futures being awaited *)
CollectImmediateNoWait ==
    /\ pc = "collect_immediate"
    /\ success_count' = success_count + CountSuccess({"VLM", "LLM"})
    /\ failed_count' = failed_count + CountFailed({"VLM", "LLM"})
    /\ IF delayed_posts # {} /\ non_standard_urls # {}
       THEN /\ pc' = "delayed"
            /\ dpos' = [post |-> FirstDelayed, url |-> 1, at |-> "next", res |-> None]
       ELSE /\ pc' = "shutdown"
            /\ UNCHANGED dpos
    /\ UNCHANGED <<unprocessed_posts, convert_call, convert_result, temp_files,
                   jk_posts, clock, run, pending, selected,
                   vlm_request, attempt, vlm_result, vlm_interpretation, lock, threads,
                   postprocessing, last_save, saves, cache, processing,
                   bg, bg_result, conversions, todo, mixed_image_data, observed, task>>

(* the as_completed loop over all_immediate_futures, run to its end *)
CollectImmediate ==
    /\ pc = "collect_immediate"
    /\ \A p \in Futures({"VLM", "LLM"}) : task[p].at = "done"
    /\ success_count' = success_count + CountSuccess({"VLM", "LLM"})
    /\ failed_count' = failed_count + CountFailed({"VLM", "LLM"})
    /\ IF delayed_posts # {} /\ non_standard_urls # {}
       THEN /\ pc' = "delayed"
            /\ dpos' = [post |-> FirstDelayed, url |-> 1, at |-> "next", res |-> None]
       ELSE /\ pc' = "shutdown"
            /\ UNCHANGED dpos
    /\ UNCHANGED <<unprocessed_posts, convert_call, convert_result, temp_files,
                   jk_posts, clock, run, pending, selected,
                   vlm_request, attempt, vlm_result, vlm_interpretation, lock, threads,
                   postprocessing, last_save, saves, cache, processing,
                   bg, bg_result, conversions, todo, mixed_image_data, observed, task>>

(***************************************************************************)
(* Step five: the delayed stage walks delayed_posts in the orchestrator    *)
(* thread; each non-standard url goes through                              *)
(* download_and_convert_image_async.                                       *)
(***************************************************************************)
CurUrls == post_image_mapping(dpos.post)

CurUrl == CurUrls[dpos.url]

(* download_and_convert_image_async returned result for the current url *)
AsyncReturn(result, how) ==
    /\ mixed_image_data' = IF result # None
                           THEN Append(mixed_image_data, Base64Item(CurUrl, result[1]))
                           ELSE mixed_image_data
    /\ observed' = observed \cup {[post |-> dpos.post, url |-> CurUrl,
                                        value |-> result, how |-> how]}
    /\ dpos' = [dpos EXCEPT !.url = @ + 1, !.at = "next", !.res = None]

(* a standard url is appended; for another one the async wrapper reads the cache *)
DelayedUrl ==
    /\ pc = "delayed" /\ dpos.at = "next" /\ dpos.url <= Len(CurUrls)
    /\ IF is_standard_format(CurUrl)
       THEN /\ mixed_image_data' = Append(mixed_image_data, UrlItem(CurUrl))
            /\ dpos' = [dpos EXCEPT !.url = @ + 1]
            /\ UNCHANGED observed
       ELSE IF get_cached_image(CurUrl) # None
            THEN AsyncReturn(get_cached_image(CurUrl), "cached")
            ELSE /\ dpos' = [dpos EXCEPT !.at = "is_processing"]
                 /\ UNCHANGED <<mixed_image_data, observed>>
    /\ UNCHANGED <<unprocessed_posts, convert_call, convert_result, temp_files,
                   jk_posts, clock, run, pending, selected,
                   vlm_request, attempt, vlm_result, vlm_interpretation, lock, threads,
                   postprocessing, last_save, saves, cache, processing,
                   bg, bg_result, conversions, pc, todo,
                   task, success_count, failed_count>>

DelayedIsProcessing ==
    /\ pc = "delayed" /\ dpos.at = "is_processing"
    /\ dpos' = [dpos EXCEPT !.at = IF is_processing(CurUrl) THEN "wait" ELSE "convert"]
    /\ UNCHANGED <<unprocessed_posts, convert_call, convert_result, temp_files,
                   jk_posts, clock, run, pending, selected,
                   vlm_request, attempt, vlm_result, vlm_interpretation, lock, threads,
                   postprocessing, last_save, saves, cache, processing,
                   bg, bg_result, conversions, pc, todo, mixed_image_data, observed,
                   task, success_count, failed_count>>

(* a poll of wait_for_processing that ends the wait *)
wait_for_processing ==
    /\ pc = "delayed" /\ dpos.at = "wait"
    /\ IF CurUrl \in DOMAIN cache
       THEN AsyncReturn(cache[CurUrl], "waited")
       ELSE CurUrl \notin processing /\ AsyncReturn(None, "waited")
    /\ UNCHANGED <<unprocessed_posts, convert_call, convert_result, temp_files,
                   jk_posts, clock, run, pending, selected,
                   vlm_request, attempt, vlm_result, vlm_interpretation, lock, threads,
                   postprocessing, last_save, saves, cache, processing,
                   bg, bg_result, conversions, pc, todo,
                   task, success_count, failed_count>>

(* mutant: a waiter that times out marks the url as failed in the cache *)
WaitTimeoutMarksFailed ==
    /\ pc = "delayed" /\ dpos.at = "wait"
    /\ cache' = finish_processing_cache(cache, CurUrl, None)
    /\ processing' = finish_processing_registry(processing, CurUrl)
    /\ AsyncReturn(None, "timeout")
    /\ UNCHANGED <<unprocessed_posts, convert_call, convert_result, temp_files,
                   jk_posts, clock, run, pending, selected,
                   vlm_request, attempt, vlm_result, vlm_interpretation, lock, threads,
                   postprocessing,
                   last_save, saves, bg, bg_result, conversions, pc, todo,
                   task, success_count, failed_count>>

(* mutant: the polling loop has no time limit *)
WaitWithoutTimeout ==
    /\ pc = "delayed" /\ dpos.at = "wait"
    /\ CurUrl \in DOMAIN cache
    /\ AsyncReturn(cache[CurUrl], "waited")
    /\ UNCHANGED <<unprocessed_posts, convert_call, convert_result, temp_files,
                   jk_posts, clock, run, pending, selected,
                   vlm_request, attempt, vlm_result, vlm_interpretation, lock, threads,
                   postprocessing,
                   last_save, saves, cache, processing, bg, bg_result, conversions, pc,
                   todo, task, success_count, failed_count>>

(* the timeout of wait_for_processing expires *)
WaitTimeout ==
    /\ pc = "delayed" /\ dpos.at = "wait"
    /\ AsyncReturn(None, "timeout")
    /\ UNCHANGED <<unprocessed_posts, convert_call, convert_result, temp_files,
                   jk_posts, clock, run, pending, selected,
                   vlm_request, attempt, vlm_result, vlm_interpretation, lock, threads,
                   postprocessing, last_save, saves, cache, processing,
                   bg, bg_result, conversions, pc, todo,
                   task, success_count, failed_count>>

(* the wrapper converts the image itself *)
DelayedConvert(result) ==
    /\ pc = "delayed" /\ dpos.at = "convert"
    /\ result \in download_and_convert_image(CurUrl)
    /\ conversions' = [conversions EXCEPT ![CurUrl] = @ + 1]
    /\ dpos' = [dpos EXCEPT !.at = "finish", !.res = result]
    /\ UNCHANGED <<unprocessed_posts, convert_call, convert_result, temp_files,
                   jk_posts, clock, run, pending, selected,
                   vlm_request, attempt, vlm_result, vlm_interpretation, lock, threads,
                   postprocessing, last_save, saves, cache, processing,
                   bg, bg_result, pc, todo, mixed_image_data, observed,
                   task, success_count, failed_count>>

DelayedFinish ==
    /\ pc = "delayed" /\ dpos.at = "finish"
    /\ cache' = finish_processing_cache(cache, CurUrl, dpos.res)
    /\ processing' = finish_processing_registry(processing, CurUrl)
    /\ AsyncReturn(dpos.res, "converted")
    /\ UNCHANGED <<unprocessed_posts, convert_call, convert_result, temp_files,
                   jk_posts, clock, run, pending, selected,
                   vlm_request, attempt, vlm_result, vlm_interpretation, lock, threads,
                   postprocessing, last_save, saves,
                   bg, bg_result, conversions, pc, todo,
                   task, success_count, failed_count>>

(* mutant: a post with a failed image is not sent to the vision model *)
DelayedTaskAllOrNothing(image_data) ==
    IF image_data # <<>> /\ Len(image_data) = Len(CurUrls)
    THEN NewTask("vlm", "DelayedVLM", image_data)
    ELSE NewTask("llm", "DelayedVLM", <<>>)

(* what is submitted to delayed_executor for a post with this image data *)
DelayedTask(image_data) ==
    IF image_data # <<>>
    THEN NewTask("vlm", "DelayedVLM", image_data)
    ELSE NewTask("llm", "DelayedVLM", <<>>)

(* all urls of the post are resolved: the post goes to the delayed executor *)
DelayedSubmit ==
    /\ pc = "delayed" /\ dpos.at = "next" /\ dpos.url > Len(CurUrls)
    /\ task' = [task EXCEPT ![dpos.post] = DelayedTask(mixed_image_data)]
    /\ mixed_image_data' = <<>>
    /\ IF NextDelayed(dpos.post) # 0
       THEN /\ dpos' = [post |-> NextDelayed(dpos.post), url |-> 1, at |-> "next", res |-> None]
            /\ pc' = pc
       ELSE /\ dpos' = NoPos
            /\ pc' = "collect_delayed"
    /\ UNCHANGED <<unprocessed_posts, convert_call, convert_result, temp_files,
                   jk_posts, clock, run, pending, selected,
                   vlm_request, attempt, vlm_result, vlm_interpretation, lock, threads,
                   postprocessing, last_save, saves, cache, processing,
                   bg, bg_result, conversions, todo, observed,
                   success_count, failed_count>>

(* the as_completed loop over delayed_futures, run to its end *)
CollectDelayed ==
    /\ pc = "collect_delayed"
    /\ \A p \in Futures({"DelayedVLM"}) : task[p].at = "done"
    /\ success_count' = success_count + CountSuccess({"DelayedVLM"})
    /\ failed_count' = failed_count + CountFailed({"DelayedVLM"})
    /\ pc' = "shutdown"
    /\ UNCHANGED <<unprocessed_posts, convert_call, convert_result, temp_files,
                   jk_posts, clock, run, pending, selected,
                   vlm_request, attempt, vlm_result, vlm_interpretation, lock, threads,
                   postprocessing, last_save, saves, cache, processing,
                   bg, bg_result, conversions, todo, dpos, mixed_image_data, observed,
                   task>>

(* bg_executor.shutdown(wait=False) and the return of the counts *)
Return ==
    /\ pc = "shutdown"
    /\ pc' = "done"
    /\ UNCHANGED <<unprocessed_posts, convert_call, convert_result, temp_files,
                   jk_posts, clock, run, pending, selected,
                   vlm_request, attempt, vlm_result, vlm_interpretation, lock, threads,
                   postprocessing, last_save, saves, cache, processing,
                   bg, bg_result, conversions, todo, dpos, mixed_image_data, observed,
                   task, success_count, failed_count>>

(***************************************************************************)
(* Workers: _process_vlm_post and _process_llm_post.  Fields of a task:    *)
(* at (position), vlm / llm (state of the model call of that kind:         *)
(* "-", "calling", "content", "falsy"), raised (a save call raised),       *)
(* result (the value the future resolves to).                              *)
(***************************************************************************)
_call_vlm_for_post == {Some(VlmContent), None}

_call_llm_for_post == {Some(LlmContent), Some(""), None}

Finished(t, result) == [t EXCEPT !.at = "done", !.result = result]

(* a pool worker picks the task up and runs it to its first model call *)
_process_llm_post(t, text) ==
    IF text = ""
    THEN Finished(t, "False")
    ELSE [t EXCEPT !.at = "llm_call", !.llm = "calling"]

_process_vlm_post(t, text) ==
    IF text = ""
    THEN Finished(t, "False")
    ELSE IF t.image_data = <<>>
         THEN _process_llm_post(t, text)
         ELSE [t EXCEPT !.at = "vlm_call", !.vlm = "calling"]

TaskStart(p) ==
    /\ p \in Posts
    /\ task[p].at = "queued"
    /\ Cardinality(Running(task[p].pool)) < PoolSize(task[p].pool)
    /\ task' = [task EXCEPT ![p] = IF task[p].fn = "vlm"
                                   THEN _process_vlm_post(task[p], post_text(p))
                                   ELSE _process_llm_post(task[p], post_text(p))]
    /\ UNCHANGED <<unprocessed_posts, convert_call, convert_result, temp_files,
                   jk_posts, clock, run, pending, selected,
                   vlm_request, attempt, vlm_result, vlm_interpretation, lock, threads,
                   postprocessing, last_save, saves, cache, processing,
                   bg, bg_result, conversions, pc, todo, dpos, mixed_image_data, observed,
                   success_count, failed_count>>

DowngradeTag == "[downgraded] "

BothFailedText == "VLM and LLM both failed"

ExceptionText == "processing exception: save failed"

(* mutant: the text call is issued whatever the vision call returned *)
AfterVlmAlwaysFallback(t, interpretation) ==
    [t EXCEPT !.at = "fallback_call", !.llm = "calling",
              !.vlm = IF Truthy(interpretation) THEN "content" ELSE "falsy"]

(* what _process_vlm_post does with the value of _call_vlm_for_post *)
AfterVlm(t, interpretation) ==
    IF Truthy(interpretation)
    THEN [t EXCEPT !.at = "save_vlm", !.vlm = "content", !.interpretation = interpretation]
    ELSE [t EXCEPT !.at = "fallback_call", !.vlm = "falsy", !.llm = "calling"]

(* what _process_vlm_post does with the value of the fallback text call *)
AfterFallback(t, fallback_interpretation) ==
    IF Truthy(fallback_interpretation)
    THEN [t EXCEPT !.at = "save_fallback", !.llm = "content",
                   !.interpretation = fallback_interpretation]
    ELSE [t EXCEPT !.at = "save_failed", !.llm = "falsy"]

(* what _process_llm_post does with the value of _call_llm_for_post *)
AfterLlm(t, interpretation) ==
    IF Truthy(interpretation)
    THEN [t EXCEPT !.at = "save_llm", !.llm = "content", !.interpretation = interpretation]
    ELSE [Finished(t, "False") EXCEPT !.llm = "falsy"]

SavePositions == {"save_vlm", "save_fallback", "save_llm", "save_failed", "save_error"}

(* mutant: the downgraded result is stored like a plain text result *)
SaveArgsNoTag(p, t) ==
    IF t.at = "save_vlm" THEN Row(p, t.interpretation[1], vlm_model, "success")
    ELSE IF t.at \in {"save_fallback", "save_llm"}
         THEN Row(p, t.interpretation[1], fast_model, "success")
    ELSE IF t.at = "save_failed" THEN Row(p, BothFailedText, "failed", "failed")
    ELSE Row(p, ExceptionText, "error", "failed")

(* mutant: every success is stored under the text model's name *)
SaveArgsTextModel(p, t) ==
    IF t.at \in {"save_vlm", "save_llm"} THEN Row(p, t.interpretation[1], fast_model, "success")
    ELSE IF t.at = "save_fallback"
         THEN Row(p, DowngradeTag \o t.interpretation[1], fast_model, "success")
    ELSE IF t.at = "save_failed" THEN Row(p, BothFailedText, "failed", "failed")
    ELSE Row(p, ExceptionText, "error", "failed")

(* the row a worker at position t.at passes to save_post_interpretation *)
SaveArgs(p, t) ==
    IF t.at = "save_vlm" THEN Row(p, t.interpretation[1], vlm_model, "success")
    ELSE IF t.at = "save_fallback"
         THEN Row(p, DowngradeTag \o t.interpretation[1], fast_model, "success")
    ELSE IF t.at = "save_llm" THEN Row(p, t.interpretation[1], fast_model, "success")
    ELSE IF t.at = "save_failed" THEN Row(p, BothFailedText, "failed", "failed")
    ELSE Row(p, ExceptionText, "error", "failed")

(* mutant: the worker returns True after any save call that returned *)
AfterSaveReportsTrue(t) == Finished(t, "True")

(* the task after its save call returned *)
AfterSave(t) ==
    IF t.at \in {"save_vlm", "save_fallback", "save_llm"}
    THEN Finished(t, "True")
    ELSE Finished(t, "False")

(* the task after its save call raised: the except clause of the worker *)
AfterSaveRaised(t) ==
    IF t.fn = "vlm" /\ t.at \in {"save_vlm", "save_fallback", "save_failed"}
    THEN [t EXCEPT !.at = "save_error", !.raised = TRUE]
    ELSE [Finished(t, "False") EXCEPT !.raised = TRUE]

(* one save call of the worker: db_ok tells whether the database accepts it *)
SaveStep(p, w, db_ok) ==
    IF w.t.at \notin SavePositions
    THEN w
    ELSE IF db_ok
         THEN LET r == SaveArgs(p, w.t)
              IN  [t |-> AfterSave(w.t),
                   table |-> save_post_interpretation(w.table, r.post_id,
                                 r.interpretation_text, r.model_name, r.status)]
         ELSE [w EXCEPT !.t = AfterSaveRaised(w.t)]

(* db: the outcomes of the save call and of the save call of the except clause *)
DbOutcomes == {<<TRUE, TRUE>>, <<FALSE, TRUE>>, <<FALSE, FALSE>>}

(* the worker runs from the return of a model call to its next model call or its end *)
Continue(p, t, db) ==
    LET w0 == [t |-> t, table |-> postprocessing]
        w2 == SaveStep(p, SaveStep(p, w0, db[1]), db[2])
    IN  /\ task' = [task EXCEPT ![p] = w2.t]
        /\ postprocessing' = w2.table

VlmReturn(p, interpretation, db) ==
    /\ p \in Posts
    /\ task[p].at = "vlm_call"
    /\ interpretation \in _call_vlm_for_post
    /\ Continue(p, AfterVlm(task[p], interpretation), db)
    /\ UNCHANGED <<unprocessed_posts, convert_call, convert_result, temp_files,
                   jk_posts, clock, run, pending, selected,
                   vlm_request, attempt, vlm_result, vlm_interpretation, lock, threads,
                   last_save, saves, cache, processing,
                   bg, bg_result, conversions, pc, todo, dpos, mixed_image_data, observed,
                   success_count, failed_count>>

FallbackReturn(p, fallback_interpretation, db) ==
    /\ p \in Posts
    /\ task[p].at = "fallback_call"
    /\ fallback_interpretation \in _call_llm_for_post
    /\ Continue(p, AfterFallback(task[p], fallback_interpretation), db)
    /\ UNCHANGED <<unprocessed_posts, convert_call, convert_result, temp_files,
                   jk_posts, clock, run, pending, selected,
                   vlm_request, attempt, vlm_result, vlm_interpretation, lock, threads,
                   last_save, saves, cache, processing,
                   bg, bg_result, conversions, pc, todo, dpos, mixed_image_data, observed,
                   success_count, failed_count>>

LlmReturn(p, interpretation, db) ==
    /\ p \in Posts
    /\ task[p].at = "llm_call"
    /\ interpretation \in _call_llm_for_post
    /\ Continue(p, AfterLlm(task[p], interpretation), db)
    /\ UNCHANGED <<unprocessed_posts, convert_call, convert_result, temp_files,
                   jk_posts, clock, run, pending, selected,
                   vlm_request, attempt, vlm_result, vlm_interpretation, lock, threads,
                   last_save, saves, cache, processing,
                   bg, bg_result, conversions, pc, todo, dpos, mixed_image_data, observed,
                   success_count, failed_count>>

Next ==
    \/ Fetch
    \/ Classify
    \/ \E url \in NormUrls : start_background_image_processing(url)
    \/ \E url \in NormUrls : \E result \in download_and_convert_image(url) :
           BgConvert(url, result)
    \/ \E url \in NormUrls : on_complete(url)
    \/ SubmitImmediate
    \/ CollectImmediate
    \/ DelayedUrl
    \/ DelayedIsProcessing
    \/ wait_for_processing
    \/ WaitTimeout
    \/ \E result \in UNION {download_and_convert_image(u) : u \in NormUrls} :
           DelayedConvert(result)
    \/ DelayedFinish
    \/ DelayedSubmit
    \/ CollectDelayed
    \/ Return
    \/ \E p \in 1..MaxPosts : TaskStart(p)
    \/ \E p \in 1..MaxPosts : \E i \in _call_vlm_for_post : \E db \in DbOutcomes :
           VlmReturn(p, i, db)
    \/ \E p \in 1..MaxPosts : \E i \in _call_llm_for_post : \E db \in DbOutcomes :
           FallbackReturn(p, i, db)
    \/ \E p \in 1..MaxPosts : \E i \in _call_llm_for_post : \E db \in DbOutcomes :
           LlmReturn(p, i, db)

Spec == Init /\ [][Next]_vars

(***************************************************************************)
(* Scheduling.  The orchestrator thread runs on: its sleeps and its wait   *)
(* on the cache are bounded, and the conversion it runs itself ends by the *)
(* timeout of requests.get.  The pool workers run on: every model call and *)
(* every save call returns.  Nothing is assumed of the background          *)
(* converter and of its done-callbacks.                                    *)
(***************************************************************************)
Orchestrator ==
    \/ Fetch
    \/ Classify
    \/ \E url \in NormUrls : start_background_image_processing(url)
    \/ SubmitImmediate
    \/ CollectImmediate
    \/ DelayedUrl
    \/ DelayedIsProcessing
    \/ wait_for_processing
    \/ WaitTimeout
    \/ \E result \in UNION {download_and_convert_image(u) : u \in NormUrls} :
           DelayedConvert(result)
    \/ DelayedFinish
    \/ DelayedSubmit
    \/ CollectDelayed
    \/ Return

Workers ==
    \/ \E p \in 1..MaxPosts : TaskStart(p)
    \/ \E p \in 1..MaxPosts : \E i \in _call_vlm_for_post : \E db \in DbOutcomes :
           VlmReturn(p, i, db)
    \/ \E p \in 1..MaxPosts : \E i \in _call_llm_for_post : \E db \in DbOutcomes :
           FallbackReturn(p, i, db)
    \/ \E p \in 1..MaxPosts : \E i \in _call_llm_for_post : \E db \in DbOutcomes :
           LlmReturn(p, i, db)

Fairness == WF_vars(Orchestrator) /\ WF_vars(Workers)

SpecFair == Init /\ [][Next]_vars /\ Fairness

(***************************************************************************)
(* The store alone: any sequence of save_post_interpretation calls.        *)
(***************************************************************************)
StorePosts == <<Post("t", <<>>), Post("t", <<JpgUrl>>)>>

SaveTexts == {VlmContent, LlmContent}

SaveModels == {vlm_model, fast_model, "failed"}

SaveStatuses == {"success", "failed"}

InitStore ==
    /\ unprocessed_posts = StorePosts
    /\ postprocessing = {}
    /\ last_save = None
    /\ saves = 0
    /\ cache = [u \in {} |-> None]
    /\ processing = {}
    /\ bg = [u \in NormUrls |-> "none"]
    /\ bg_result = [u \in NormUrls |-> None]
    /\ conversions = [u \in NormUrls |-> 0]
    /\ pc = "store"
    /\ todo = {}
    /\ dpos = NoPos
    /\ mixed_image_data = <<>>
    /\ observed = {}
    /\ task = [p \in 1..Len(unprocessed_posts) |-> NoTask]
    /\ success_count = 0
    /\ failed_count = 0
    /\ convert_call = None
    /\ convert_result = None
    /\ temp_files = {}
    /\ lock = None
    /\ threads = <<>>
    /\ jk_posts = <<>>
    /\ clock = 0
    /\ run = 0
    /\ pending = {}
    /\ selected = {}
    /\ vlm_request = <<>>
    /\ attempt = 0
    /\ vlm_result = None
    /\ vlm_interpretation = None

SaveCall(post_id, text, model_name, status) ==
    /\ pc = "store"
    /\ saves < MaxSaves
    /\ post_id \in Posts
    /\ postprocessing' = save_post_interpretation(postprocessing, post_id, text,
                                                  model_name, status)
    /\ last_save' = Some(Row(post_id, text, model_name, status))
    /\ saves' = saves + 1
    /\ UNCHANGED <<unprocessed_posts, convert_call, convert_result, temp_files,
                   jk_posts, clock, run, pending, selected,
                   vlm_request, attempt, vlm_result, vlm_interpretation, lock, threads,
                   cache, processing, bg, bg_result, conversions, pc,
                   todo, dpos, mixed_image_data, observed, task, success_count,
                   failed_count>>

NextStore ==
    \E post_id \in 1..Len(StorePosts) : \E text \in SaveTexts :
        \E model_name \in SaveModels : \E status \in SaveStatuses :
            SaveCall(post_id, text, model_name, status)

SpecStore == InitStore /\ [][NextStore]_vars

(***************************************************************************)
(* download_and_convert_image alone: one call, over the outcomes of the    *)
(* download and of the decoding.                                           *)
(***************************************************************************)
HeicUrl == Url("https", "h", "/e", ".heic", "")

ConvertUrls == {WebpUrl, DynUrl, HeicUrl}

(* the limit on content-length, in MB *)
SizeCeiling == 50

(* sizes in MB, of a declared length or of the body streamed *)
Sizes == {1, SizeCeiling, SizeCeiling + 1}

(* a call and what it meets: get is the outcome of requests.get and         *)
(* raise_for_status, content_length the header, size the body iter_content *)
(* delivers, streamed whether iter_content delivers it to the end,         *)
(* decodable whether PIL opens and converts the file, saved whether        *)
(* img.save writes the converted file                                      *)
ConvertCalls ==
    [url : ConvertUrls, PIL_AVAILABLE : BOOLEAN, HEIF_AVAILABLE : BOOLEAN,
     get : {"ok", "timeout", "error"},
     content_length : {None} \cup {Some(n) : n \in Sizes},
     size : Sizes, streamed : BOOLEAN, decodable : BOOLEAN, saved : BOOLEAN]

is_heic(url) == url.ext \in {".heic", ".heif"}

(* how a block ends: exc is the exception leaving it ("none": it returned  *)
(* result), files the temporary files of the call that exist at that point *)
Ended(exc, result, files) == [exc |-> exc, result |-> result, files |-> files]

(* the inner try block and its except clause, entered with temp_path written *)
convert_block(c) ==
    IF is_heic(c.url) /\ ~c.HEIF_AVAILABLE THEN Ended("none", None, {"temp_path"})
    ELSE IF ~c.decodable THEN Ended("none", None, {"temp_path"})
    ELSE IF ~c.saved THEN Ended("none", None, {"temp_path", "converted_path"})
    ELSE Ended("none", Blob(c.url), {})

(* the outer try block *)
download_block(c) ==
    IF c.get = "timeout" THEN Ended("Timeout", None, {})
    ELSE IF c.get = "error" THEN Ended("RequestException", None, {})
    ELSE IF c.content_length # None /\ c.content_length[1] > SizeCeiling
         THEN Ended("none", None, {})
    ELSE IF ~c.streamed THEN Ended("RequestException", None, {"temp_path"})
    ELSE convert_block(c)

(* the except clauses of the outer try *)
Handled == {"Timeout", "RequestException", "Exception"}

(* mutant: the function has no finally clause *)
finally_cleanup_skipped(files) == files

(* the finally clause unlinks temp_path and converted_path when they exist *)
finally_cleanup(files) == files \ {"temp_path", "converted_path"}

(* the whole call: whether an exception leaves it, its value, the files left *)
download_and_convert_image_exit(c) ==
    IF ~c.PIL_AVAILABLE
    THEN [raised |-> FALSE, result |-> None, files |-> {}]
    ELSE LET b == download_block(c)
         IN  [raised |-> b.exc \notin Handled \cup {"none"},
              result |-> IF b.exc = "none" THEN b.result ELSE None,
              files |-> finally_cleanup(b.files)]

download_and_convert_image_call(c) == download_and_convert_image_exit(c).result

InitConvert ==
    /\ unprocessed_posts = <<>>
    /\ postprocessing = {}
    /\ last_save = None
    /\ saves = 0
    /\ cache = [u \in {} |-> None]
    /\ processing = {}
    /\ bg = [u \in NormUrls |-> "none"]
    /\ bg_result = [u \in NormUrls |-> None]
    /\ conversions = [u \in NormUrls |-> 0]
    /\ pc = "convert"
    /\ todo = {}
    /\ dpos = NoPos
    /\ mixed_image_data = <<>>
    /\ observed = {}
    /\ task = [p \in 1..Len(unprocessed_posts) |-> NoTask]
    /\ success_count = 0
    /\ failed_count = 0
    /\ convert_call \in {Some(c) : c \in ConvertCalls}
    /\ convert_result = None
    /\ temp_files = {}
    /\ lock = None
    /\ threads = <<>>
    /\ jk_posts = <<>>
    /\ clock = 0
    /\ run = 0
    /\ pending = {}
    /\ selected = {}
    /\ vlm_request = <<>>
    /\ attempt = 0
    /\ vlm_result = None
    /\ vlm_interpretation = None

ConvertReturn ==
    /\ pc = "convert"
    /\ convert_result' = download_and_convert_image_call(convert_call[1])
    /\ temp_files' = download_and_convert_image_exit(convert_call[1]).files
    /\ pc' = IF download_and_convert_image_exit(convert_call[1]).raised
             THEN "raised" ELSE "converted"
    /\ UNCHANGED <<unprocessed_posts, convert_call, lock, threads, postprocessing, last_save,
                   jk_posts, clock, run, pending, selected,
                   vlm_request, attempt, vlm_result, vlm_interpretation,
                   saves, cache,
                   processing, bg, bg_result, conversions, todo, dpos, mixed_image_data,
                   observed, task, success_count, failed_count>>

NextConvert == ConvertReturn

SpecConvert == InitConvert /\ [][NextConvert]_vars

(***************************************************************************)
(* The pipeline on short batches drawn from a wider catalogue of posts:    *)
(* every combination of screened-out, standard and non-standard            *)
(* references.                                                             *)
(***************************************************************************)
MaxClassifyPosts == 1

ClassifyKinds ==
    { Post("", <<>>),
      Post("t", <<>>),
      Post("t", <<NoHostUrl>>),
      Post("t", <<RootUrl, NoHostUrl>>),
      Post("t", <<JpgUrl, PngUrl>>),
      Post("t", <<NoHostUrl, JpgUrl>>),
      Post("t", <<WebpUrl>>),
      Post("t", <<JpgUrl, DynUrl>>),
      Post("t", <<RootUrl, WebpUrlQ>>) }

InitClassify ==
    /\ unprocessed_posts \in UNION {[1..n -> ClassifyKinds] : n \in 1..MaxClassifyPosts}
    /\ postprocessing = {}
    /\ last_save = None
    /\ saves = 0
    /\ cache = [u \in {} |-> None]
    /\ processing = {}
    /\ bg = [u \in NormUrls |-> "none"]
    /\ bg_result = [u \in NormUrls |-> None]
    /\ conversions = [u \in NormUrls |-> 0]
    /\ pc = "fetch"
    /\ todo = {}
    /\ dpos = NoPos
    /\ mixed_image_data = <<>>
    /\ observed = {}
    /\ task = [p \in 1..Len(unprocessed_posts) |-> NoTask]
    /\ success_count = 0
    /\ failed_count = 0
    /\ convert_call = None
    /\ convert_result = None
    /\ temp_files = {}
    /\ lock = None
    /\ threads = <<>>
    /\ jk_posts = <<>>
    /\ clock = 0
    /\ run = 0
    /\ pending = {}
    /\ selected = {}
    /\ vlm_request = <<>>
    /\ attempt = 0
    /\ vlm_result = None
    /\ vlm_interpretation = None

SpecClassify == InitClassify /\ [][Next]_vars

(***************************************************************************)
(* ImageCache under its lock.  The orchestrator thread runs the launch     *)
(* loop of start_background_image_processing and then                      *)
(* download_and_convert_image_async over LockUrls; a BgImageProcessor      *)
(* worker converts each submitted url and runs its done-callback.  Every   *)
(* method of ImageCache is three steps: taking the lock, the body, leaving *)
(* the with-block.                                                         *)
(***************************************************************************)
LockUrls == <<WebpUrl, DynUrl>>

(* polls of wait_for_processing before its timeout *)
MaxPolls == 2

MainThread == 0

BgThreads == 1..Len(LockUrls)

Thread(phase, fn, at, url) ==
    [phase |-> phase, fn |-> fn, at |-> at, url |-> url, res |-> None, yes |-> FALSE,
     polls |-> 0, cb |-> FALSE]

(* the thread calls a method of image_cache *)
Call(th, fn) == [th EXCEPT !.fn = fn, !.at = "acquire"]

(* the orchestrator goes on to the next url of its loop, or to the next loop *)
NextUrl(th) ==
    IF th.url < Len(LockUrls)
    THEN [th EXCEPT !.url = @ + 1, !.at = "acquire", !.res = None, !.polls = 0,
                    !.fn = IF th.phase = "launch" THEN "is_processing"
                           ELSE "get_cached_image"]
    ELSE IF th.phase = "launch"
         THEN [th EXCEPT !.phase = "async", !.url = 1, !.fn = "get_cached_image",
                         !.at = "acquire", !.res = None, !.polls = 0]
         ELSE [th EXCEPT !.fn = "done", !.at = "-"]

InitLock ==
    /\ unprocessed_posts = <<>>
    /\ postprocessing = {}
    /\ last_save = None
    /\ saves = 0
    /\ cache = [u \in {} |-> None]
    /\ processing = {}
    /\ bg = [u \in NormUrls |-> "none"]
    /\ bg_result = [u \in NormUrls |-> None]
    /\ conversions = [u \in NormUrls |-> 0]
    /\ pc = "lock"
    /\ todo = {}
    /\ dpos = NoPos
    /\ mixed_image_data = <<>>
    /\ observed = {}
    /\ task = [p \in 1..Len(unprocessed_posts) |-> NoTask]
    /\ success_count = 0
    /\ failed_count = 0
    /\ convert_call = None
    /\ convert_result = None
    /\ temp_files = {}
    /\ lock = None
    /\ threads = [t \in {MainThread} \cup BgThreads |->
                     IF t = MainThread THEN Thread("launch", "is_processing", "acquire", 1)
                     ELSE Thread("bg", "idle", "-", t)]
    /\ jk_posts = <<>>
    /\ clock = 0
    /\ run = 0
    /\ pending = {}
    /\ selected = {}
    /\ vlm_request = <<>>
    /\ attempt = 0
    /\ vlm_result = None
    /\ vlm_interpretation = None

(* mutant: the method body runs without the lock being taken *)
WithoutLock(t) == None

(* with self._lock: the lock is held by the thread that entered the block *)
WithLock(t) == Some(t)

Acquire(t) ==
    /\ pc = "lock"
    /\ threads[t].at = "acquire"
    /\ lock = None
    /\ lock' = WithLock(t)
    /\ threads' = [threads EXCEPT ![t].at = "locked"]
    /\ UNCHANGED <<unprocessed_posts, convert_call, convert_result, temp_files,
                   jk_posts, clock, run, pending, selected,
                   vlm_request, attempt, vlm_result, vlm_interpretation,
                   postprocessing, last_save, saves, cache, processing,
                   bg, bg_result, conversions, pc, todo, dpos, mixed_image_data, observed,
                   task, success_count, failed_count>>

(* the body of the method the thread is in *)
Locked(t) ==
    /\ pc = "lock"
    /\ threads[t].at = "locked"
    /\ LET th == threads[t]
           url == LockUrls[th.url]
       IN  IF th.fn = "get_cached_image"
           THEN /\ threads' = [threads EXCEPT ![t].at = "release",
                                              ![t].res = get_cached_image(url)]
                /\ UNCHANGED <<cache, processing>>
           ELSE IF th.fn = "is_processing"
           THEN /\ threads' = [threads EXCEPT ![t].at = "release",
                                              ![t].yes = is_processing(url)]
                /\ UNCHANGED <<cache, processing>>
           ELSE IF th.fn = "start_processing"
           THEN /\ processing' = start_processing(processing, url)
                /\ threads' = [threads EXCEPT ![t].at = "release"]
                /\ UNCHANGED cache
           ELSE IF th.fn = "finish_processing"
           THEN /\ cache' = finish_processing_cache(cache, url, th.res)
                /\ processing' = finish_processing_registry(processing, url)
                /\ threads' = [threads EXCEPT ![t].at = "release"]
           ELSE /\ th.fn = "wait_for_processing"
                /\ threads' = [threads EXCEPT
                                   ![t].at = "release",
                                   ![t].yes = url \in DOMAIN cache \/ url \notin processing,
                                   ![t].res = IF url \in DOMAIN cache THEN cache[url]
                                              ELSE None]
                /\ UNCHANGED <<cache, processing>>
    /\ UNCHANGED <<unprocessed_posts, convert_call, convert_result, temp_files,
                   jk_posts, clock, run, pending, selected,
                   vlm_request, attempt, vlm_result, vlm_interpretation, lock,
                   postprocessing, last_save, saves,
                   bg, bg_result, conversions, pc, todo, dpos, mixed_image_data, observed,
                   task, success_count, failed_count>>

(* where the thread goes when it leaves the with-block of its method *)
AfterMethod(th) ==
    IF th.phase = "launch"
    THEN IF th.fn = "is_processing"
         THEN IF th.yes THEN NextUrl(th) ELSE Call(th, "get_cached_image")
         ELSE IF th.fn = "get_cached_image"
              THEN IF th.res = None THEN Call(th, "start_processing") ELSE NextUrl(th)
              ELSE NextUrl(th)
    ELSE IF th.phase = "async"
    THEN IF th.fn = "get_cached_image"
         THEN IF th.res # None THEN NextUrl(th) ELSE Call(th, "is_processing")
         ELSE IF th.fn = "is_processing"
              THEN IF th.yes THEN Call(th, "wait_for_processing")
                   ELSE [th EXCEPT !.fn = "download_and_convert_image", !.at = "-"]
         ELSE IF th.fn = "wait_for_processing"
              THEN IF th.yes THEN NextUrl(th) ELSE [th EXCEPT !.fn = "sleep", !.at = "-"]
         ELSE NextUrl(th)
    ELSE [th EXCEPT !.fn = "done", !.at = "-"]

(* executor.submit follows the launch loop's get_cached_image, and         *)
(* add_done_callback its start_processing                                  *)
Release(t) ==
    /\ pc = "lock"
    /\ threads[t].at = "release"
    /\ lock' = None
    /\ LET th == threads[t]
           w == th.url
       IN  IF th.phase = "launch" /\ th.fn = "get_cached_image" /\ th.res = None
           THEN threads' = [threads EXCEPT ![t] = AfterMethod(th),
                                           ![w].fn = "download_and_convert_image"]
           ELSE IF th.phase = "launch" /\ th.fn = "start_processing"
           THEN threads' = [threads EXCEPT ![t] = AfterMethod(th), ![w].cb = TRUE]
           ELSE threads' = [threads EXCEPT ![t] = AfterMethod(th)]
    /\ UNCHANGED <<unprocessed_posts, convert_call, convert_result, temp_files,
                   jk_posts, clock, run, pending, selected,
                   vlm_request, attempt, vlm_result, vlm_interpretation,
                   postprocessing, last_save, saves, cache, processing,
                   bg, bg_result, conversions, pc, todo, dpos, mixed_image_data, observed,
                   task, success_count, failed_count>>

(* download_and_convert_image returns to the thread that ran it *)
Converted(t, result) ==
    /\ pc = "lock"
    /\ threads[t].fn = "download_and_convert_image"
    /\ result \in download_and_convert_image(LockUrls[threads[t].url])
    /\ threads' = [threads EXCEPT
                       ![t] = IF t = MainThread
                              THEN [Call(@, "finish_processing") EXCEPT !.res = result]
                              ELSE [@ EXCEPT !.fn = "callback", !.res = result]]
    /\ UNCHANGED <<unprocessed_posts, convert_call, convert_result, temp_files,
                   jk_posts, clock, run, pending, selected,
                   vlm_request, attempt, vlm_result, vlm_interpretation, lock,
                   postprocessing, last_save, saves, cache, processing,
                   bg, bg_result, conversions, pc, todo, dpos, mixed_image_data, observed,
                   task, success_count, failed_count>>

(* the done-callback of a finished future calls finish_processing *)
Callback(t) ==
    /\ pc = "lock"
    /\ threads[t].fn = "callback" /\ threads[t].cb
    /\ threads' = [threads EXCEPT ![t] = Call(@, "finish_processing")]
    /\ UNCHANGED <<unprocessed_posts, convert_call, convert_result, temp_files,
                   jk_posts, clock, run, pending, selected,
                   vlm_request, attempt, vlm_result, vlm_interpretation, lock,
                   postprocessing, last_save, saves, cache, processing,
                   bg, bg_result, conversions, pc, todo, dpos, mixed_image_data, observed,
                   task, success_count, failed_count>>

(* time.sleep(0.1) ends: the loop polls again, or its time is up *)
Wake(t, timed_out) ==
    /\ pc = "lock"
    /\ threads[t].fn = "sleep"
    /\ timed_out \/ threads[t].polls < MaxPolls
    /\ threads' = [threads EXCEPT
                       ![t] = IF timed_out THEN NextUrl(@)
                              ELSE [Call(@, "wait_for_processing") EXCEPT !.polls = @ + 1]]
    /\ UNCHANGED <<unprocessed_posts, convert_call, convert_result, temp_files,
                   jk_posts, clock, run, pending, selected,
                   vlm_request, attempt, vlm_result, vlm_interpretation, lock,
                   postprocessing, last_save, saves, cache, processing,
                   bg, bg_result, conversions, pc, todo, dpos, mixed_image_data, observed,
                   task, success_count, failed_count>>

NextLock ==
    \/ \E t \in {MainThread} \cup BgThreads : Acquire(t)
    \/ \E t \in {MainThread} \cup BgThreads : Locked(t)
    \/ \E t \in {MainThread} \cup BgThreads : Release(t)
    \/ \E t \in {MainThread} \cup BgThreads :
           \E result \in UNION {download_and_convert_image(LockUrls[i]) : i \in BgThreads} :
               Converted(t, result)
    \/ \E t \in BgThreads : Callback(t)
    \/ \E timed_out \in BOOLEAN : Wake(MainThread, timed_out)

SpecLock == InitLock /\ [][NextLock]_vars

(***************************************************************************)
(* Successive runs over one database: each run selects its batch with      *)
(* get_unprocessed_posts and the workers store for each post of the batch  *)
(* one of the records they can store, or none.                             *)
(***************************************************************************)
MaxRuns == 3

(* the look-back of get_unprocessed_posts, in hours *)
hours_back == 36

(* mutant: only a success record keeps a post from being selected *)
get_unprocessed_posts_retry_failed(posts, table, now) ==
    {p \in DOMAIN posts :
        /\ ~\E r \in table : r.post_id = p /\ r.status = "success"
        /\ posts[p] >= now - hours_back}

(* WHERE pp.post_id IS NULL AND p.created_at >= DATE_SUB(NOW(), INTERVAL 36 HOUR) *)
get_unprocessed_posts(posts, table, now) ==
    {p \in DOMAIN posts :
        /\ ~\E r \in table : r.post_id = p
        /\ posts[p] >= now - hours_back}

(* what the worker of post p leaves in the table: one of the rows it can   *)
(* pass to save_post_interpretation, or nothing                            *)
StoredOutcomes(p) ==
    {None} \cup {Some(SaveArgs(p, [at |-> a, interpretation |-> Some(LlmContent)])) :
                    a \in SavePositions}

InitRuns ==
    /\ unprocessed_posts = <<>>
    /\ postprocessing = {}
    /\ last_save = None
    /\ saves = 0
    /\ cache = [u \in {} |-> None]
    /\ processing = {}
    /\ bg = [u \in NormUrls |-> "none"]
    /\ bg_result = [u \in NormUrls |-> None]
    /\ conversions = [u \in NormUrls |-> 0]
    /\ pc = "runs"
    /\ todo = {}
    /\ dpos = NoPos
    /\ mixed_image_data = <<>>
    /\ observed = {}
    /\ task = [p \in 1..Len(unprocessed_posts) |-> NoTask]
    /\ success_count = 0
    /\ failed_count = 0
    /\ convert_call = None
    /\ convert_result = None
    /\ temp_files = {}
    /\ lock = None
    /\ threads = <<>>
    /\ jk_posts \in [{1, 2} -> {0, 24}]
    /\ clock = 24
    /\ run = 0
    /\ pending = {}
    /\ selected = {}
    /\ vlm_request = <<>>
    /\ attempt = 0
    /\ vlm_result = None
    /\ vlm_interpretation = None

(* a run starts, hours after the one before: process_unprocessed_posts     *)
(* fetches its batch                                                       *)
StartRun(hours) ==
    /\ pc = "runs"
    /\ pending = {}
    /\ run < MaxRuns
    /\ run' = run + 1
    /\ clock' = clock + hours
    /\ pending' = get_unprocessed_posts(jk_posts, postprocessing, clock')
    /\ selected' = selected \cup {<<run + 1, p>> : p \in pending'}
    /\ UNCHANGED <<unprocessed_posts, convert_call, convert_result, temp_files,
                   jk_posts, lock, threads,
                   vlm_request, attempt, vlm_result, vlm_interpretation,
                   postprocessing, last_save, saves, cache, processing,
                   bg, bg_result, conversions, pc, todo, dpos, mixed_image_data, observed,
                   task, success_count, failed_count>>

(* the worker of a post of the batch ends *)
ProcessPost(p, outcome) ==
    /\ pc = "runs"
    /\ p \in pending
    /\ outcome \in StoredOutcomes(p)
    /\ pending' = pending \ {p}
    /\ postprocessing' =
           IF outcome = None THEN postprocessing
           ELSE save_post_interpretation(postprocessing, p, outcome[1].interpretation_text,
                                         outcome[1].model_name, outcome[1].status)
    /\ UNCHANGED <<unprocessed_posts, convert_call, convert_result, temp_files,
                   jk_posts, clock, run, selected, lock, threads,
                   vlm_request, attempt, vlm_result, vlm_interpretation,
                   last_save, saves, cache, processing,
                   bg, bg_result, conversions, pc, todo, dpos, mixed_image_data, observed,
                   task, success_count, failed_count>>

NextRuns ==
    \/ \E hours \in {1, 12} : StartRun(hours)
    \/ \E p \in {1, 2} : \E outcome \in StoredOutcomes(p) : ProcessPost(p, outcome)

SpecRuns == InitRuns /\ [][NextRuns]_vars

(***************************************************************************)
(* LLMClient.call_vlm alone, as _call_vlm_for_post calls it: one request   *)
(* with images, the retry loop over what the API answers to each attempt.  *)
(***************************************************************************)
max_retries == 3

(* messages of the exceptions the API client raises; the first three       *)
(* contain "400", the image-format text and the parse-error text that      *)
(* call_vlm looks for                                                      *)
ApiErrors ==
    {"Error code: 400", "image input format", "parse error", "Error code: 500", "timed out"}

EmptyResponse == "VLM returned an empty response"

(* what the API answers to one attempt: a stream that ends, with its text  *)
(* stripped, or an exception                                               *)
ApiAnswers ==
    {[ok |-> TRUE, text |-> VlmContent], [ok |-> TRUE, text |-> ""]}
        \cup {[ok |-> FALSE, text |-> e] : e \in ApiErrors}

(* the exception that ends the try block of an attempt, None when it returns *)
attempt_exception(answer) ==
    IF ~answer.ok THEN Some(answer.text)
    ELSE IF answer.text = "" THEN Some(EmptyResponse)
    ELSE None

(* mutant: every error is retried *)
no_retry_never(error) == FALSE

(* "400" in str(e) or the image-format text or the parse-error text in str(e) *)
no_retry(error) == error \in {"Error code: 400", "image input format", "parse error"}

VlmResult(success, content, final_attempt) ==
    [success |-> success, content |-> content, final_attempt |-> final_attempt]

InitVlm ==
    /\ unprocessed_posts = <<>>
    /\ postprocessing = {}
    /\ last_save = None
    /\ saves = 0
    /\ cache = [u \in {} |-> None]
    /\ processing = {}
    /\ bg = [u \in NormUrls |-> "none"]
    /\ bg_result = [u \in NormUrls |-> None]
    /\ conversions = [u \in NormUrls |-> 0]
    /\ pc = "call_vlm"
    /\ todo = {}
    /\ dpos = NoPos
    /\ mixed_image_data = <<>>
    /\ observed = {}
    /\ task = [p \in 1..Len(unprocessed_posts) |-> NoTask]
    /\ success_count = 0
    /\ failed_count = 0
    /\ convert_call = None
    /\ convert_result = None
    /\ temp_files = {}
    /\ lock = None
    /\ threads = <<>>
    /\ jk_posts = <<>>
    /\ clock = 0
    /\ run = 0
    /\ pending = {}
    /\ selected = {}
    /\ vlm_request \in [1..max_retries -> ApiAnswers]
    /\ attempt = 0
    /\ vlm_result = None
    /\ vlm_interpretation = None

(* one iteration of the retry loop, with the sleep that follows a retried error *)
call_vlm_attempt ==
    /\ pc = "call_vlm"
    /\ attempt < max_retries
    /\ attempt' = attempt + 1
    /\ LET answer == vlm_request[attempt + 1]
           e == attempt_exception(answer)
       IN  IF e = None
           THEN /\ vlm_result' = Some(VlmResult(TRUE, answer.text, FALSE))
                /\ pc' = "call_vlm_returned"
           ELSE IF no_retry(e[1])
           THEN /\ vlm_result' = Some(VlmResult(FALSE, "", TRUE))
                /\ pc' = "call_vlm_returned"
           ELSE IF attempt < max_retries - 1
           THEN UNCHANGED <<vlm_result, pc>>
           ELSE /\ vlm_result' = Some(VlmResult(FALSE, "", FALSE))
                /\ pc' = "call_vlm_returned"
    /\ UNCHANGED <<unprocessed_posts, convert_call, convert_result, temp_files,
                   jk_posts, clock, run, pending, selected,
                   vlm_request, vlm_interpretation, lock, threads,
                   postprocessing, last_save, saves, cache, processing,
                   bg, bg_result, conversions, todo, dpos, mixed_image_data, observed,
                   task, success_count, failed_count>>

(* _call_vlm_for_post reads the dict call_vlm returned *)
call_vlm_for_post_return ==
    /\ pc = "call_vlm_returned"
    /\ vlm_interpretation' = IF vlm_result[1].success /\ vlm_result[1].content # ""
                             THEN Some(vlm_result[1].content)
                             ELSE None
    /\ pc' = "returned"
    /\ UNCHANGED <<unprocessed_posts, convert_call, convert_result, temp_files,
                   jk_posts, clock, run, pending, selected,
                   vlm_request, attempt, vlm_result, lock, threads,
                   postprocessing, last_save, saves, cache, processing,
                   bg, bg_result, conversions, todo, dpos, mixed_image_data, observed,
                   task, success_count, failed_count>>

NextVlm == call_vlm_attempt \/ call_vlm_for_post_return

SpecVlm == InitVlm /\ [][NextVlm]_vars

(***************************************************************************)
(* Properties.                                                             *)
(***************************************************************************)
Done(p) == p \in Posts /\ task[p].at = "done"

(* C1: within one run download_and_convert_image is executed exactly once  *)
(* for each distinct normalized non-standard url; stated here as: no url   *)
(* is ever converted a second time.                                        *)
C1_ConvertedOnce == \A u \in NormUrls : conversions[u] <= 1

(* C2: when the worker of a post has finished, a record with status        *)
(* success or failed is stored for the post (workers whose save call       *)
(* raised are left aside).                                                 *)
C2_OutcomeRecorded ==
    \A p \in Posts :
        (Done(p) /\ ~task[p].raised) =>
            \E r \in RecordsOf(p) : r.status \in {"success", "failed"}

(* C3: the returned counts satisfy success + failed = total.               *)
C3_Completeness ==
    pc = "done" => success_count + failed_count = Len(unprocessed_posts)

C3_Witness ==
    /\ pc = "done"
    /\ Len(unprocessed_posts) = MaxPosts
    /\ delayed_posts # {} /\ immediate_posts # {}
    /\ success_count >= 1 /\ failed_count >= 1

(* C4: all posts that reference one non-standard url observe the same      *)
(* outcome for it (observations that ended in a wait timeout are left      *)
(* aside).                                                                 *)
C4_SameOutcome ==
    \A o1 \in observed : \A o2 \in observed :
        (o1.url = o2.url /\ o1.post # o2.post /\ o1.how # "timeout" /\ o2.how # "timeout")
            => o1.value = o2.value

(* the post ran _process_vlm_post, its vision call failed and its text call succeeded *)
Downgraded(p) ==
    Done(p) /\ task[p].fn = "vlm" /\ task[p].vlm = "falsy" /\ task[p].llm = "content"

DowngradedRow(p) == Row(p, DowngradeTag \o LlmContent, fast_model, "success")

BothFailed(p) ==
    Done(p) /\ task[p].fn = "vlm" /\ task[p].vlm = "falsy" /\ task[p].llm = "falsy"

NoImageFailed(p) ==
    Done(p) /\ p \in vlm_posts /\ task[p].fn = "llm" /\ task[p].result = "False"

(* C6: both terminal failures of a vision-path post store a failed record, *)
(* and the record of "vision and text failed" differs from the record of   *)
(* "no usable image data" (workers whose save call raised are left aside). *)
C6_FailureReasonRecorded ==
    /\ \A p \in Posts :
           ((BothFailed(p) \/ NoImageFailed(p)) /\ ~task[p].raised) =>
               \E r \in RecordsOf(p) : r.status = "failed"
    /\ \A p \in Posts : \A q \in Posts :
           (BothFailed(p) /\ NoImageFailed(q)) =>
               \A r1 \in RecordsOf(p) : \A r2 \in RecordsOf(q) :
                   r1.interpretation_text # r2.interpretation_text

(* C7: in _process_vlm_post the text call is issued only after the vision  *)
(* call returned a failure, the two calls are never in progress together,  *)
(* and no text call follows a vision call that succeeded.                  *)
C7_VisionBeforeFallback ==
    \A p \in Posts :
        task[p].fn = "vlm" =>
            /\ ~(task[p].vlm = "calling" /\ task[p].llm = "calling")
            /\ task[p].llm # "-" => task[p].vlm = "falsy"
            /\ task[p].vlm = "content" => task[p].llm = "-"

C7_Witness ==
    \E p \in Posts : task[p].fn = "vlm" /\ task[p].at = "fallback_call"

VisionSucceeded(p) == Done(p) /\ task[p].fn = "vlm" /\ task[p].vlm = "content"

C9_LastWriteWins ==
    [][saves' = saves + 1 =>
          LET w == last_save'[1]
          IN  /\ {r \in postprocessing' : r.post_id = w.post_id} = {w}
              /\ \A q \in Posts : q # w.post_id =>
                     {r \in postprocessing' : r.post_id = q} = RecordsOf(q)]_vars

C9_Witness == saves >= 2 /\ Cardinality(postprocessing) = 1

(* C10: once a result is stored in the cache for a url, the url is never   *)
(* registered as in-flight again and its entry never leaves the cache.     *)
C10_NoWayBack ==
    [][\A u \in NormUrls :
          u \in DOMAIN cache =>
              (u \in DOMAIN cache' /\ u \notin processing /\ u \notin processing')]_vars

C10_Witness ==
    \E u \in DOMAIN cache : pc = "done" /\ conversions[u] >= 2

(* C15: converting an image whose content exceeds the size ceiling reports *)
(* failure, whether or not the response declares its length.               *)
C15_OversizeFails ==
    (pc = "converted" /\ convert_call[1].size > SizeCeiling) => convert_result = None

(* the posts whose text-model call, or vision-model call, is in progress *)
TextCalls == {p \in Posts : task[p].llm = "calling"}

VisionCalls == {p \in Posts : task[p].vlm = "calling"}

(* C16: every text-model call runs on a worker of the text pool and every  *)
(* vision-model call on a worker of a vision pool, so the text calls in    *)
(* progress are at most the text pool size and the vision calls in         *)
(* progress at most the vision pool size.                                  *)
C16_OwnPool ==
    /\ \A p \in TextCalls : task[p].pool = "LLM"
    /\ \A p \in VisionCalls : task[p].pool \in {"VLM", "DelayedVLM"}
    /\ Cardinality(TextCalls) <= fast_llm_workers
    /\ Cardinality(VisionCalls) <= fast_vlm_workers

(* what download_and_convert_image_async returned to post p *)
Observations(p) == {o \in observed : o.post = p}

StandardUrls(p) == {u \in Range(post_image_mapping(p)) : is_standard_format(u)}

NonStandardUrls(p) == Range(post_image_mapping(p)) \ StandardUrls(p)

(* the usable images of a post with standard urls std that obtained obs *)
UsableItems(std, obs) ==
    {UrlItem(u) : u \in std}
        \cup {Base64Item(o.url, o.value[1]) : o \in {x \in obs : x.value # None}}

Submitted(p) == task[p].at # "none"

Started(p) == task[p].at \notin {"none", "queued"}

(* C11: a post with a non-standard image is submitted once each of its     *)
(* non-standard references has resolved; it goes to the vision model, with *)
(* exactly its usable images, iff it has a usable image, and to the text   *)
(* model iff all its images failed.                                        *)
C11_DispatchByUsable ==
    \A p \in Posts :
        Submitted(p) =>
            LET urls == Range(post_image_mapping(p))
                std == {u \in urls : is_standard_format(u)}
                obs == Observations(p)
                usable == UsableItems(std, obs)
            IN  urls \ std # {} =>
                    /\ \A u \in urls \ std : \E o \in obs : o.url = u
                    /\ task[p].fn = "vlm" <=> usable # {}
                    /\ task[p].fn = "llm" <=> (std = {} /\ \A o \in obs : o.value = None)
                    /\ task[p].fn = "vlm" =>
                           /\ Range(task[p].image_data) = usable
                           /\ Len(task[p].image_data) = Cardinality(usable)
                    /\ Started(p) =>
                           /\ task[p].fn = "vlm" => task[p].vlm # "-"
                           /\ task[p].fn = "llm" => (task[p].vlm = "-" /\ task[p].llm # "-")

C11_Witness ==
    \E p \in delayed_posts :
        /\ task[p].at = "vlm_call"
        /\ Len(task[p].image_data) < Len(post_image_mapping(p))
        /\ \E q \in delayed_posts : q # p /\ Started(q) /\ task[q].fn = "llm"

(* the background conversion of u has run and returned a payload *)
BgSucceeded(u) == bg[u] \in {"converted", "done"} /\ bg_result[u] # None

(* C12: a post with a non-standard image is submitted only after the       *)
(* conversion of that image has completed and its result is stored, or     *)
(* after the post's wait timed out; when the conversion succeeded, the     *)
(* post runs on the vision pool with the payload the conversion produced;  *)
(* a waiter reads a result only once it is stored.                         *)
C12_HeldUntilConverted ==
    /\ \A p \in delayed_posts :
           Submitted(p) =>
               \A u \in NonStandardUrls(p) :
                   \E o \in Observations(p) :
                       /\ o.url = u
                       /\ \/ o.how = "timeout"
                          \/ /\ conversions[u] >= 1
                             /\ u \in DOMAIN cache
                             /\ BgSucceeded(u) =>
                                    /\ task[p].fn = "vlm"
                                    /\ task[p].pool = "DelayedVLM"
                                    /\ Base64Item(u, bg_result[u][1]) \in
                                           Range(task[p].image_data)
    /\ \A o \in observed : o.how = "waited" => o.url \in DOMAIN cache

(* the immediate phase has submitted its tasks *)
ImmediateSubmitted == pc \in {"collect_immediate", "delayed", "collect_delayed", "shutdown", "done"}

ImmediateOver == pc \in {"delayed", "collect_delayed", "shutdown", "done"}

AllStandard(p) == Range(post_image_mapping(p)) # {} /\ NonStandardUrls(p) = {}

(* C13: a post whose valid image references are all standard-format is     *)
(* submitted to the vision pool in the immediate phase with each image as  *)
(* a url reference; it never goes through the delayed stage, and none of   *)
(* its urls is converted, registered in flight or cached.                  *)
C13_StandardImmediate ==
    \A p \in Posts :
        unprocessed_posts[p].markup # <<>> =>
            LET urls == post_image_mapping(p)
            IN  (urls # <<>> /\ \A u \in Range(urls) : is_standard_format(u)) =>
                    /\ ImmediateSubmitted =>
                           /\ task[p].fn = "vlm" /\ task[p].pool = "VLM"
                           /\ task[p].image_data = [i \in 1..Len(urls) |-> UrlItem(urls[i])]
                    /\ ImmediateOver => task[p].at = "done"
                    /\ dpos.post # p /\ Observations(p) = {}
                    /\ \A u \in Range(urls) :
                           /\ conversions[u] = 0 /\ bg[u] = "none"
                           /\ u \notin DOMAIN cache /\ u \notin processing /\ u \notin todo

C13_Witness ==
    \E p \in Posts :
        /\ AllStandard(p)
        /\ pc = "collect_immediate" /\ task[p].at = "done" /\ task[p].vlm = "content"
        /\ \E u \in NormUrls : bg[u] = "pending"

NoMarkup(p) == unprocessed_posts[p].markup = <<>>

(* C14: a post without image markup is submitted to the text pool only,    *)
(* issues no vision call and is never taken through the delayed stage; a   *)
(* batch of such posts leaves the cache, the in-flight registry and the    *)
(* converter untouched.                                                    *)
C14_TextOnly ==
    /\ \A p \in Posts :
           NoMarkup(p) =>
               /\ task[p].fn \in {"none", "llm"} /\ task[p].pool \in {"none", "LLM"}
               /\ task[p].vlm = "-"
               /\ ImmediateSubmitted => task[p].pool = "LLM"
               /\ ImmediateOver => task[p].at = "done"
               /\ dpos.post # p /\ Observations(p) = {}
    /\ (\A p \in Posts : NoMarkup(p)) =>
           /\ DOMAIN cache = {} /\ processing = {} /\ todo = {} /\ observed = {}
           /\ \A u \in NormUrls : conversions[u] = 0 /\ bg[u] = "none"
           /\ pc \notin {"start_bg", "delayed", "collect_delayed"}

C14_Witness ==
    /\ pc = "done" /\ Len(unprocessed_posts) = MaxPosts
    /\ \A p \in Posts : NoMarkup(p)
    /\ \E p \in Posts : task[p].result = "True"

(* C17: a failure in the processing of one post changes neither the task   *)
(* nor the records of another post, and the run returns with every post    *)
(* processed and counted, the failed ones as failed: a step that leaves    *)
(* the task of q alone leaves the records of q alone, a worker step        *)
(* changes one task, and at the return every task has ended and the        *)
(* counts are those of the tasks' results.                                 *)
C17_FailuresIsolated ==
    [][/\ \A q \in Posts :
              task'[q] = task[q] =>
                  {r \in postprocessing' : r.post_id = q} = RecordsOf(q)
       /\ pc' = pc => Cardinality({q \in Posts : task'[q] # task[q]}) <= 1
       /\ (pc' = "done" /\ pc # "done") =>
              /\ \A q \in Posts : task'[q].at = "done"
              /\ \A q \in Posts :
                     (task'[q].raised \/ task'[q].llm = "falsy") => task'[q].result = "False"
              /\ success_count' = Cardinality({q \in Posts : task'[q].result = "True"})
              /\ failed_count' = Cardinality({q \in Posts : task'[q].result # "True"})
      ]_vars

C17_Witness ==
    /\ pc = "done"
    /\ \E p \in Posts : \E q \in Posts :
           /\ task[p].raised /\ task[p].result = "False"
           /\ task[q].result = "True" /\ RecordsOf(q) # {}
    /\ success_count >= 1 /\ failed_count >= 1

(* C19: a cache wait that times out gives its post no payload for the url  *)
(* and leaves the cache entry, the in-flight registration and the          *)
(* background conversion of the url as they are; the done-callback of the  *)
(* converter still stores its result afterwards, and a later cache hit or  *)
(* wait returns what the cache holds.                                      *)
C19_TimeoutLeavesCache ==
    [][/\ \A o \in observed' \ observed :
              o.how = "timeout" =>
                  /\ o.value = None /\ mixed_image_data' = mixed_image_data
                  /\ cache' = cache /\ processing' = processing
                  /\ bg' = bg /\ bg_result' = bg_result
       /\ \A u \in NormUrls :
              (bg[u] = "converted" /\ bg'[u] = "done") =>
                  (u \in DOMAIN cache' /\ cache'[u] = bg_result[u] /\ u \notin processing')
       /\ \A o \in observed' \ observed :
              o.how \in {"cached", "waited"} =>
                  (o.url \in DOMAIN cache /\ o.value = cache[o.url])
      ]_vars

C19_Witness ==
    \E o1 \in observed : \E o2 \in observed :
        /\ o1.how = "timeout" /\ o2.url = o1.url /\ o2.post > o1.post
        /\ o2.how \in {"cached", "waited"} /\ o2.value = bg_result[o2.url] /\ o2.value # None

(* the references of p as written, those that pass screening, those that do not *)
RawRefs(p) == Range(unprocessed_posts[p].markup)

ScreenedRefs(p) == {u \in {normalize_image_url(r) : r \in RawRefs(p)} : is_valid_image_url(u)}

ScreenedOut(p) == {r \in RawRefs(p) : ~is_valid_image_url(normalize_image_url(r))}

TextOnlyBucket(p) == ScreenedRefs(p) = {}

ImageReadyBucket(p) ==
    ScreenedRefs(p) # {} /\ \A u \in ScreenedRefs(p) : is_standard_format(u)

ImagePendingBucket(p) == \E u \in ScreenedRefs(p) : ~is_standard_format(u)

(* C20: every post is in exactly one bucket, fixed by its screened         *)
(* references alone: text-only (text pool) when none remains, image-ready  *)
(* (vision pool, immediate phase) when all that remain are standard,       *)
(* image-pending (held for the delayed stage) when one is non-standard;    *)
(* a reference that fails screening is never converted, registered,        *)
(* cached or passed to a model.                                            *)
C20_Buckets ==
    /\ \A p \in Posts :
           /\ p \in llm_posts <=> TextOnlyBucket(p)
           /\ p \in immediate_posts \cap vlm_posts <=> ImageReadyBucket(p)
           /\ p \in delayed_posts <=> ImagePendingBucket(p)
           /\ Cardinality({b \in {1, 2, 3} :
                               \/ b = 1 /\ p \in llm_posts
                               \/ b = 2 /\ p \in immediate_posts \cap vlm_posts
                               \/ b = 3 /\ p \in delayed_posts}) = 1
           /\ ImmediateSubmitted =>
                  /\ task[p].pool = "LLM" <=> TextOnlyBucket(p)
                  /\ task[p].pool = "VLM" <=> ImageReadyBucket(p)
                  /\ task[p].pool \in {"none", "DelayedVLM"} <=> ImagePendingBucket(p)
           /\ pc \in {"collect_delayed", "shutdown", "done"} => task[p].pool # "none"
           /\ {i.url : i \in Range(task[p].image_data)} \subseteq ScreenedRefs(p)
           /\ \A r \in ScreenedOut(p) :
                  LET u == normalize_image_url(r)
                  IN  /\ u \notin todo /\ u \notin DOMAIN cache /\ u \notin processing
                      /\ conversions[u] = 0 /\ bg[u] = "none"
    /\ {i.url : i \in Range(mixed_image_data)} \subseteq
           UNION {ScreenedRefs(p) : p \in Posts}

C20_Witness ==
    \E p \in Posts :
        /\ ScreenedOut(p) # {} /\ ImagePendingBucket(p)
        /\ task[p].at = "vlm_call" /\ task[p].pool = "DelayedVLM"

C21_SubmittedOnce ==
    [][\A p \in Posts :
          /\ Submitted(p) =>
                 /\ task'[p].fn = task[p].fn /\ task'[p].pool = task[p].pool
                 /\ task'[p].image_data = task[p].image_data
                 /\ task'[p].at = "queued" => task[p].at = "queued"
          /\ (pc' = "done" /\ pc # "done") => task'[p].at = "done"
          /\ {r \in postprocessing' : r.post_id = p} # RecordsOf(p) =>
                 /\ task[p].at \in {"vlm_call", "fallback_call", "llm_call"}
                 /\ task'[p].at = "done"
                 /\ \A q \in Posts : q # p => task'[q] = task[q]
      ]_vars

C21_Witness ==
    /\ pc = "done" /\ Len(unprocessed_posts) = MaxPosts
    /\ \E p \in delayed_posts : \E q \in immediate_posts :
           /\ task[p].pool = "DelayedVLM" /\ task[q].pool \in {"VLM", "LLM"}
           /\ RecordsOf(p) # {} /\ RecordsOf(q) # {}

(* C22: download_and_convert_image never raises: on every exit path it     *)
(* returns the encoded payload or the failure value (the failure value on  *)
(* an HTTP error, a download timeout, a declared length above the ceiling, *)
(* an interrupted download, a decode or save failure and a HEIC source     *)
(* without decoder), and no temporary file of the call exists once it has  *)
(* returned.                                                               *)
C22_NeverRaisesAndCleans ==
    /\ pc # "raised"
    /\ pc = "converted" =>
           LET c == convert_call[1]
           IN  /\ convert_result \in {None, Blob(c.url)}
               /\ temp_files = {}
               /\ (\/ ~c.PIL_AVAILABLE \/ c.get # "ok" \/ ~c.streamed
                   \/ ~c.decodable \/ ~c.saved
                   \/ (is_heic(c.url) /\ ~c.HEIF_AVAILABLE)
                   \/ (c.content_length # None /\ c.content_length[1] > SizeCeiling))
                      => convert_result = None

C22_Witness ==
    /\ pc = "converted" /\ convert_result = None
    /\ convert_call[1].PIL_AVAILABLE /\ convert_call[1].get = "ok"
    /\ convert_call[1].streamed /\ convert_call[1].decodable /\ ~convert_call[1].saved

(* the launch loop of the background converter is over *)
Launched == pc \notin {"fetch", "classify", "start_bg"}

(* C23: the background converter is launched once, before any post is     *)
(* dispatched: each distinct non-standard url of the batch is submitted to *)
(* it exactly once, in the launch loop, and nothing else is; no task is    *)
(* submitted before the loop has ended; and the dispatch of the immediate  *)
(* posts is enabled as soon as the loop has ended, whatever the state of   *)
(* the conversions.                                                        *)
C23_LaunchedOnceFirst ==
    [][/\ bg' # bg =>
              \A u \in NormUrls :
                  /\ (bg'[u] = "pending" /\ bg[u] # "pending") =>
                         /\ bg[u] = "none" /\ pc = "start_bg" /\ u \in todo /\ u \notin todo'
                         /\ u \in non_standard_urls
                  /\ bg'[u] = "none" => bg[u] = "none"
       /\ pc' # pc =>
              /\ pc' = "start_bg" => pc = "classify"
              /\ (Launched' /\ ~Launched) =>
                     LET urls == non_standard_urls
                     IN  /\ todo' = {}
                         /\ \A u \in NormUrls : u \in urls <=> bg'[u] # "none"
       /\ Launched =>
              /\ todo' = {} /\ Launched'
              /\ \A u \in NormUrls : bg[u] = "none" => bg'[u] = "none"
       /\ task' # task => Launched'
       /\ pc = "submit_immediate" => ENABLED SubmitImmediate
      ]_vars

C23_Witness ==
    /\ pc = "collect_immediate"
    /\ \E p \in Posts : \E q \in Posts :
           /\ p # q /\ p \in delayed_posts /\ q \in delayed_posts
           /\ Range(post_image_mapping(p)) \cap Range(post_image_mapping(q)) # {}
    /\ \E u \in non_standard_urls : bg[u] = "pending" /\ conversions[u] = 0

(* the orchestrator issues a request through download_and_convert_image_async *)
AsyncRequest ==
    /\ pc = "delayed" /\ dpos.at = "next" /\ dpos' # dpos
    /\ dpos.url <= Len(CurUrls) /\ ~is_standard_format(CurUrl)

(* C24: a request for a url whose cache entry is complete, with a payload  *)
(* or with the failure marker, returns the stored outcome at once and runs *)
(* no conversion; a request for a url in flight waits; so the wrapper      *)
(* converts a url only when the url has no entry and was never converted.  *)
C24_StoredOutcomeReused ==
    [][/\ (AsyncRequest /\ CurUrl \in DOMAIN cache) =>
              /\ dpos'.at = "next" /\ dpos'.url = dpos.url + 1
              /\ [post |-> dpos.post, url |-> CurUrl, value |-> cache[CurUrl],
                  how |-> "cached"] \in observed'
              /\ conversions' = conversions
       /\ (AsyncRequest /\ CurUrl \notin DOMAIN cache /\ CurUrl \in processing) =>
              dpos'.at = "is_processing"
       /\ (pc = "delayed" /\ dpos.at = "convert" /\ dpos'.at = "finish") =>
              (CurUrl \notin DOMAIN cache /\ conversions[CurUrl] = 0)
      ]_vars

AllThreads == DOMAIN threads

(* C25: the result map and the in-flight registry are read and written     *)
(* only by the thread that holds the cache lock, one thread at a time, and *)
(* no thread holds the lock while it runs download_and_convert_image,      *)
(* sleeps in wait_for_processing or is outside a method of the cache.      *)
C25_UnderLock ==
    [][/\ \A t \in AllThreads :
              /\ threads[t].at \in {"locked", "release"} => lock = Some(t)
              /\ threads[t].at \notin {"locked", "release"} => lock # Some(t)
              /\ threads[t].fn \in {"download_and_convert_image", "sleep", "callback"} =>
                     (threads[t].at = "-" /\ lock # Some(t))
              /\ (threads'[t].res # threads[t].res \/ threads'[t].yes # threads[t].yes) =>
                     \/ /\ lock = Some(t) /\ lock' = Some(t)
                        /\ threads[t].at = "locked" /\ threads'[t].at = "release"
                     \/ threads[t].fn = "download_and_convert_image"
                     \/ threads'[t].at = "acquire" /\ threads[t].at # "acquire"
       /\ (cache' # cache \/ processing' # processing) =>
              \E t \in AllThreads :
                  /\ lock = Some(t) /\ lock' = Some(t)
                  /\ threads[t].at = "locked" /\ threads'[t].at = "release"
                  /\ threads[t].fn \in {"start_processing", "finish_processing"}
       /\ Cardinality({t \in AllThreads : threads[t].at \in {"locked", "release"}}) <= 1
      ]_vars

(* a worker is converting one url while the orchestrator is inside a       *)
(* method of the cache for the other url                                   *)
C25_Witness ==
    /\ pc = "lock"
    /\ threads[1].fn = "download_and_convert_image"
    /\ threads[MainThread].at = "locked" /\ threads[MainThread].url = 2
    /\ threads[MainThread].phase = "async"

(* C26: once the cache holds a completed outcome for a url, no later step  *)
(* of the run replaces it with a different one: a payload stays that       *)
(* payload and a failure marker stays a failure marker.                    *)
C26_OutcomeFinal ==
    [][\A u \in DOMAIN cache : u \in DOMAIN cache' /\ cache'[u] = cache[u]]_vars

(* the posts a run selected *)
SelectedBy(r) == {p \in DOMAIN jk_posts : <<r, p>> \in selected}

SuccessRecords(p) == {r \in RecordsOf(p) : r.status = "success"}

(* C28: every record of the table has status success or failed; a success  *)
(* record has a non-empty text and the vision or the text model's name, a  *)
(* failed record the name 'failed' or 'error'; and the worker of a post    *)
(* returns True iff it saved a success record for the post.                *)
C28_RecordsWellFormed ==
    /\ \A r \in postprocessing :
           /\ r.status \in {"success", "failed"}
           /\ r.status = "success" =>
                  (r.interpretation_text # "" /\ r.model_name \in {vlm_model, fast_model})
           /\ r.status = "failed" => r.model_name \in {"failed", "error"}
    /\ \A p \in Posts :
           /\ task[p].result = "True" <=> SuccessRecords(p) # {}
           /\ SuccessRecords(p) # {} => task[p].at = "done"
           /\ task[p].result # "-" <=> task[p].at = "done"

C28_Witness ==
    \E p \in Posts : \E q \in Posts :
        /\ task[p].result = "True" /\ task[p].fn = "vlm"
        /\ \E r \in RecordsOf(p) : r.status = "success" /\ r.model_name = vlm_model
        /\ task[q].result = "False"
        /\ \E r \in RecordsOf(q) : r.status = "failed" /\ r.model_name = "error"

(* the delayed stage has begun: a delayed post is being inspected against  *)
(* the cache, has obtained a result from it or has been submitted          *)
DelayedBegun ==
    \/ pc \in {"delayed", "collect_delayed"}
    \/ dpos.post # 0 \/ observed # {} \/ mixed_image_data # <<>>
    \/ \E p \in Posts : task[p].pool = "DelayedVLM"

(* C29: the two dispatch phases never overlap: once the delayed stage has  *)
(* begun, every task of the immediate phase has ended, so no model call of *)
(* an immediate worker is in progress together with one of a delayed       *)
(* worker.                                                                 *)
C29_PhasesDisjoint ==
    DelayedBegun =>
        \A p \in Posts :
            /\ task[p].pool \in {"VLM", "LLM"} => task[p].at = "done"
            /\ task[p].pool = "none" => dpos.post # 0 /\ dpos.post <= p
            /\ task[p].at \in {"vlm_call", "fallback_call", "llm_call"} =>
                   (task[p].pool = "DelayedVLM"
                        /\ \A q \in VisionCalls \cup TextCalls : task[q].pool = "DelayedVLM")

C29_Witness ==
    \E p \in Posts : \E q \in Posts :
        /\ task[p].pool = "VLM" /\ task[p].vlm # "-" /\ task[p].at = "done"
        /\ task[q].pool = "DelayedVLM" /\ task[q].at = "vlm_call"

(* attempt i obtained content; attempt i met an image-format or 400 error *)
GaveContent(i) == vlm_request[i].ok /\ vlm_request[i].text # ""

FormatError(i) ==
    ~vlm_request[i].ok
        /\ vlm_request[i].text \in {"Error code: 400", "image input format", "parse error"}

(* the first attempt that obtains content or meets such an error, or the last one *)
LastAttempt ==
    IF \E i \in 1..max_retries : GaveContent(i) \/ FormatError(i)
    THEN CHOOSE i \in 1..max_retries :
             /\ GaveContent(i) \/ FormatError(i)
             /\ \A j \in 1..(i - 1) : ~(GaveContent(j) \/ FormatError(j))
    ELSE max_retries

(* C30: call_vlm makes at most max_retries attempts; it stops at the first *)
(* attempt that obtains non-empty content, returning success with that     *)
(* content, and at the first image-format or 400 error, returning failure; *)
(* after any other error it goes on until max_retries attempts are made;   *)
(* it always returns a dict whose success flag tells whether content was   *)
(* obtained, and _call_vlm_for_post returns that content or None.          *)
C30_BoundedRetries ==
    /\ attempt <= max_retries
    /\ pc = "call_vlm" =>
           (attempt < LastAttempt /\ vlm_result = None)
    /\ pc \in {"call_vlm_returned", "returned"} =>
           /\ attempt = LastAttempt
           /\ vlm_result # None
           /\ vlm_result[1].success <=> GaveContent(attempt)
           /\ vlm_result[1].success =>
                  (vlm_result[1].content = vlm_request[attempt].text
                       /\ vlm_result[1].content # "")
           /\ vlm_result[1].final_attempt <=> FormatError(attempt)
    /\ pc = "returned" =>
           /\ vlm_interpretation \in _call_vlm_for_post
           /\ vlm_interpretation # None <=> vlm_result[1].success

C30_Witness ==
    /\ pc = "returned" /\ attempt = max_retries
    /\ vlm_request[1].ok /\ vlm_request[1].text = ""
    /\ ~vlm_request[2].ok
    /\ vlm_interpretation = Some(VlmContent)
====
